---- MODULE Spec2Model ----
(***************************************************************************)
(* A model of ECS.h (namespace ECS): the World's entity sequence, its      *)
(* system sequence, its subscriber registry and the operations on them.    *)
(*                                                                         *)
(* The library is single threaded and synchronous.  An operation that      *)
(* calls out (emit -> EventSubscriber::receive, tick -> EntitySystem::tick)*)
(* is split at each call-out: while a callback runs, the operation that    *)
(* made it is a frame on `stack`, and the callback may itself call World   *)
(* operations (which nest, up to MaxDepth).  Everything between two        *)
(* call-outs is one atomic step.                                           *)
(***************************************************************************)
EXTENDS Integers, Sequences, FiniteSets, TLC

\* ------------------------------------------------------------------ bounds
MaxEntities == 3        \* entity allocations (World::create calls) in a run
MaxSubscriptions == 2   \* entries in the subscriber registry, over all types
MaxSubscribers == 3     \* distinct EventSubscriber objects
MaxSystems == 2         \* distinct EntitySystem objects
MaxRegistrations == 2   \* entries of World::systems
MaxDepth == 2           \* nesting of World operations through callbacks
MaxContainers == 2      \* component container allocations in a run
MaxValue == 2           \* distinct component values
MaxDeallocs == 2        \* deallocations of one Entity (the second is a double free)
MaxCursors == 2         \* view cursors the host holds at a time

\* --------------------------------------------------------------- constants
InvalidEntityId == 0    \* Entity::InvalidEntityId
Null == 0               \* nullptr

Obj == 1..MaxEntities            \* Entity* values: the k-th allocation is k
Subscriber == 1..MaxSubscribers  \* BaseEventSubscriber* values
System == 1..MaxSystems          \* EntitySystem* values

OnEntityCreated == "OnEntityCreated"
OnEntityDestroyed == "OnEntityDestroyed"
EntityEvents == {OnEntityCreated, OnEntityDestroyed}
UserEvents == {"EventA", "EventB"}

CompType == {"X", "Y"}           \* component types (TypeIndex values)
Value == 1..MaxValue             \* component values
\* Events::OnComponentAssigned<T>
OnComponentAssigned(T) ==
  IF T = "X" THEN "OnComponentAssigned<X>" ELSE "OnComponentAssigned<Y>"
ComponentEvents == {OnComponentAssigned(T) : T \in CompType}

VARIABLES
  entities,      \* World::entities: sequence of Entity*
  lastEntityId,  \* World::lastEntityId
  heap,          \* the Entity objects: heap[o].id, heap[o].bPendingDestroy
  nAlloc,        \* Entity allocations made so far (= World::create calls)
  deallocs,      \* deallocs[o]: how often Entity o was destroyed+deallocated
  systems,       \* World::systems: sequence of EntitySystem*
  subscribers,   \* World::subscribers: TypeIndex -> sequence of subscribers
  stack,         \* operations suspended in a callback, innermost last
  emitted,       \* emitted[o]: emit<OnEntityDestroyed>({o}) calls so far
  allocAtReset,  \* nAlloc when World::reset last returned (0: never)
  received,      \* receive calls of the emit in progress / last completed
  ticked,        \* ticked[s]: EntitySystem::tick calls on s in the current tick
  subscribed,    \* subscribed[T]: the subscribe<T> calls' subscribers, in call order
  marked,        \* entities a system's tick marked pending in the current tick
  cleaned,       \* what the last World::cleanup call of the host returned
  components,    \* components[o]: Entity::components of o, TypeIndex -> container
  containers,    \* the ComponentContainer objects allocated so far
  removed,       \* what the last Entity::remove call returned
  visited,       \* entities viewFunc was called with by the last each / all, in order
  view,          \* Types... and bIncludePendingDestroy of the last World::each / World::all call
  eachStart,     \* components when the World::each / World::all call in progress began
  world,         \* the World object: "alive", "destroyed" by destroyWorld, or "crashed"
  torn,          \* systems ~World called unconfigure on, in call order
  configured,    \* configured[s]: configure was called on s and unconfigure was not since
  cursors        \* the view cursors (EntityIterator / EntityComponentIterator) the host holds

vars == <<entities, lastEntityId, heap, nAlloc, deallocs, systems, subscribers,
          stack, emitted, allocAtReset, received, ticked, subscribed, marked, cleaned,
          components, containers, removed, visited, view, eachStart, world, torn,
          configured,
          cursors>>

\* ----------------------------------------------------------------- helpers
Top == stack[Len(stack)]
Pop == SubSeq(stack, 1, Len(stack) - 1)

Frame(op, ty, o, imm, i) ==
  [op |-> op, ty |-> ty, ent |-> o, imm |-> imm, i |-> i, k |-> 1]

\* The subscriber list emit<T> iterates: found->second, or nothing.
SubList(ty) == IF ty \in DOMAIN subscribers THEN subscribers[ty] ELSE <<>>

HasSubs(ty) == Len(SubList(ty)) > 0

Subscriptions ==
  LET RECURSIVE Sum(_)
      Sum(S) == IF S = {} THEN 0
                ELSE LET t == CHOOSE x \in S : TRUE
                     IN Len(subscribers[t]) + Sum(S \ {t})
  IN Sum(DOMAIN subscribers)

\* A range-for over World::entities is suspended in a callback: operations that
\* push to or erase from the vector would invalidate its iterators.
InRangeFor == \E j \in 1..Len(stack) : stack[j].op \in {"reset", "destroyWorld"}

\* The caller (the host when the stack is empty, else the running callback) may
\* call a World operation.
CanCall == world = "alive" /\ Len(stack) < MaxDepth
AtHost == world = "alive" /\ stack = <<>>

\* A pointer to an Entity that is constructed and not deallocated.
ValidEntity(o) == o \in 1..nAlloc /\ deallocs[o] = 0

\* Entity::isPendingDestroy
isPendingDestroy(hp, o) == hp[o].bPendingDestroy

\* ent->bPendingDestroy = true
MarkPendingSkip(hp, o) == hp
MarkPending(hp, o) == [hp EXCEPT ![o].bPendingDestroy = TRUE]

\* allocator destroy + deallocate of one Entity
Deallocate(dl, o) == [dl EXCEPT ![o] = @ + 1]

\* Entity::has<T>
has(comps, o, T) == T \in DOMAIN comps[o]

\* Entity::get<T>: a handle to the container's data (the container stands for
\* its data member), or the invalid handle
get(comps, o, T) == IF has(comps, o, T) THEN comps[o][T] ELSE Null

\* ComponentHandle::isValid
isValid(handle) == handle # Null

\* BaseComponentContainer::destroy on each container of the set S: the
\* container, and the data in it, is destroyed and deallocated
DestroyContainers(cs, S) ==
  [c \in DOMAIN cs |->
     IF c \in S THEN [cs[c] EXCEPT !.freed = @ + 1, !.data = Null] ELSE cs[c]]

\* the containers an entity's map points to
Held(comps, o) == {comps[o][T] : T \in DOMAIN comps[o]}

\* Entity::~Entity -> removeAll, run by the allocator's destroy for every entity
\* this step deallocates
DestructorsSkipped == UNCHANGED <<containers, components>>
Destructors ==
  LET dying == {o \in Obj : deallocs'[o] > deallocs[o]}
  IN /\ containers' = DestroyContainers(containers,
                                        UNION {Held(components, o) : o \in dying})
     /\ components' = [o \in Obj |-> IF o \in dying THEN <<>> ELSE components[o]]

\* entities.erase(std::remove(begin, end, ent), end)
RECURSIVE Erase(_, _)
Erase(s, x) ==
  IF s = <<>> THEN <<>>
  ELSE IF Head(s) = x THEN Erase(Tail(s), x)
       ELSE <<Head(s)>> \o Erase(Tail(s), x)

\* World::getCount
getCount(ents) == Len(ents)

\* World::getByIndex (idx is 0-based as in the code)
getByIndex(ents, idx) == IF idx >= getCount(ents) THEN Null ELSE ents[idx + 1]

\* World::getById: the linear scan over the sequence
RECURSIVE ScanById(_, _, _, _)
ScanById(ents, hp, i, id) ==
  IF i > Len(ents) THEN Null
  ELSE IF hp[ents[i]].id = id THEN ents[i]
       ELSE ScanById(ents, hp, i + 1, id)

getByIdOffByOne(ents, hp, last, id) ==
  IF id = InvalidEntityId \/ id >= last THEN Null
  ELSE ScanById(ents, hp, 1, id)
getById(ents, hp, last, id) ==
  IF id = InvalidEntityId \/ id > last THEN Null
  ELSE ScanById(ents, hp, 1, id)

\* ------------------------------------------------------------------- Init
Init ==
  /\ entities = <<>>
  /\ lastEntityId = 0
  /\ heap = [o \in Obj |-> [id |-> 0, bPendingDestroy |-> FALSE]]
  /\ nAlloc = 0
  /\ deallocs = [o \in Obj |-> 0]
  /\ systems = <<>>
  /\ subscribers = <<>>
  /\ stack = <<>>
  /\ emitted = [o \in Obj |-> 0]
  /\ allocAtReset = 0
  /\ received = <<>>
  /\ ticked = [s \in System |-> 0]
  /\ subscribed = <<>>
  /\ marked = {}
  /\ cleaned = FALSE
  /\ components = [o \in Obj |-> <<>>]
  /\ containers = <<>>
  /\ removed = FALSE
  /\ visited = <<>>
  /\ view = [types |-> {}, incl |-> FALSE]
  /\ eachStart = [o \in Obj |-> <<>>]
  /\ world = "alive"
  /\ torn = <<>>
  /\ configured = [s \in System |-> FALSE]
  /\ cursors = <<>>

\* ------------------------------------------------------------- subscribe
\* subList.push_back(subscriber) / found->second.push_back(subscriber)
PushFront(list, s) == <<s>> \o list
PushBack(list, s) == Append(list, s)

\* a registry (or the history of the subscribe calls) with s added to type ty
WithEntry(reg, ty, s) ==
  IF ty \notin DOMAIN reg
  THEN [t \in DOMAIN reg \cup {ty} |-> IF t = ty THEN <<s>> ELSE reg[t]]
  ELSE [reg EXCEPT ![ty] = Append(@, s)]

\* World::subscribe<T>(subscriber), called by the host
Subscribe(ty, s) ==
  /\ AtHost
  /\ Subscriptions < MaxSubscriptions
  /\ subscribers' =
       IF ty \notin DOMAIN subscribers
       THEN [t \in DOMAIN subscribers \cup {ty} |->
               IF t = ty THEN PushBack(<<>>, s) ELSE subscribers[t]]
       ELSE [subscribers EXCEPT ![ty] = PushBack(@, s)]
  /\ subscribed' = WithEntry(subscribed, ty, s)
  /\ UNCHANGED <<cursors, configured, torn, world, eachStart, view, visited,
                 removed, containers, components, entities, lastEntityId, heap,
                 nAlloc, deallocs, systems, stack, emitted, allocAtReset,
                 received, ticked, marked, cleaned>>

\* ---------------------------------------------------------------- create
\* ++lastEntityId, and the id the Entity is constructed with
NextIdPostIncrement(last) == [last |-> last + 1, id |-> last]
NextId(last) == [last |-> last + 1, id |-> last + 1]

\* World::create up to and including the first receive call of its emit
Create ==
  /\ CanCall
  /\ ~InRangeFor
  /\ nAlloc < MaxEntities
  /\ LET o == nAlloc + 1
     IN /\ lastEntityId' = NextId(lastEntityId).last
        /\ nAlloc' = o
        /\ heap' = [heap EXCEPT ![o] = [id |-> NextId(lastEntityId).id,
                                        bPendingDestroy |-> FALSE]]
        /\ entities' = Append(entities, o)
        /\ stack' = IF HasSubs(OnEntityCreated)
                    THEN Append(stack, Frame("create", OnEntityCreated, o, FALSE, 0))
                    ELSE stack
  /\ UNCHANGED <<cursors, configured, torn, world, eachStart, view, visited,
                 removed, containers, components, deallocs, systems,
                 subscribers, emitted, allocAtReset, received, ticked,
                 subscribed, marked, cleaned>>

\* --------------------------------------------------------------- destroy
\* World::destroy after the emit (or on a pending entity): erase and deallocate
\* when immediate
DestroyFinishAlways(o, imm) ==
  /\ entities' = Erase(entities, o)
  /\ deallocs' = Deallocate(deallocs, o)
DestroyFinish(o, imm) ==
  /\ entities' = IF imm THEN Erase(entities, o) ELSE entities
  /\ deallocs' = IF imm THEN Deallocate(deallocs, o) ELSE deallocs

\* history for World::tick: the entities a system's tick marks pending without
\* asking for their immediate removal
MarkedBy(o, imm) ==
  IF ~imm /\ \E j \in 1..Len(stack) : stack[j].op = "tick"
  THEN marked \cup {o} ELSE marked

\* World::destroy(ent, immediate) up to and including the first receive call
Destroy(o, imm) ==
  /\ CanCall
  /\ ValidEntity(o)
  /\ imm => ~InRangeFor
  /\ IF isPendingDestroy(heap, o)
     THEN /\ DestroyFinish(o, imm)
          /\ marked' = IF imm THEN marked \ {o} ELSE marked
          /\ UNCHANGED <<heap, emitted, stack>>
     ELSE /\ heap' = MarkPending(heap, o)
          /\ emitted' = [emitted EXCEPT ![o] = @ + 1]
          /\ marked' = MarkedBy(o, imm)
          /\ IF HasSubs(OnEntityDestroyed)
             THEN /\ stack' = Append(stack, Frame("destroy", OnEntityDestroyed, o, imm, 0))
                  /\ UNCHANGED <<entities, deallocs>>
             ELSE /\ DestroyFinish(o, imm)
                  /\ UNCHANGED stack
  /\ Destructors
  /\ UNCHANGED <<cursors, configured, torn, world, eachStart, view, visited,
                 removed, lastEntityId, nAlloc, systems, subscribers,
                 allocAtReset, received, ticked, subscribed, cleaned>>

\* --------------------------------------------------------------- cleanup
\* The remove_if walk of World::cleanup: the predicate deallocates a pending
\* entity and counts it; the others are kept in order.
RECURSIVE CleanupLoop(_, _, _)
CleanupLoop(ents, hp, acc) ==
  IF ents = <<>> THEN acc
  ELSE LET o == Head(ents)
       IN IF isPendingDestroy(hp, o)
          THEN CleanupLoop(Tail(ents), hp,
                 [acc EXCEPT !.deallocs = Deallocate(@, o), !.count = @ + 1])
          ELSE CleanupLoop(Tail(ents), hp, [acc EXCEPT !.kept = Append(@, o)])

\* World::cleanup as a function of the state: what is kept, the deallocations
\* and the value returned (count > 0)
cleanupNoErase(ents, hp, dl) ==
  LET r == CleanupLoop(ents, hp, [kept |-> <<>>, deallocs |-> dl, count |-> 0])
  IN [kept |-> ents, deallocs |-> r.deallocs, ret |-> r.count > 0]
cleanup(ents, hp, dl) ==
  LET r == CleanupLoop(ents, hp, [kept |-> <<>>, deallocs |-> dl, count |-> 0])
  IN [kept |-> r.kept, deallocs |-> r.deallocs, ret |-> r.count > 0]

\* World::cleanup called by the host or by a callback
Cleanup ==
  /\ CanCall
  /\ ~InRangeFor
  /\ LET r == cleanup(entities, heap, deallocs)
     IN /\ entities' = r.kept
        /\ deallocs' = r.deallocs
        /\ cleaned' = r.ret
  /\ marked' = {}
  /\ Destructors
  /\ UNCHANGED <<cursors, configured, torn, world, eachStart, view, visited,
                 removed, lastEntityId, heap, nAlloc, systems, subscribers,
                 stack, emitted, allocAtReset, received, ticked, subscribed>>

\* ----------------------------------------------------------------- reset
\* The loop of World::reset from position i on, up to the next receive call (at
\* = the position whose event is being delivered) or to its end (at = 0).
RECURSIVE ResetLoop(_, _, _, _)
ResetLoop(i, hp, dl, em) ==
  IF i > Len(entities)
  THEN [at |-> 0, heap |-> hp, deallocs |-> dl, emitted |-> em]
  ELSE LET o == entities[i]
       IN IF ~isPendingDestroy(hp, o)
          THEN LET hp2 == MarkPending(hp, o)
                   em2 == [em EXCEPT ![o] = @ + 1]
               IN IF HasSubs(OnEntityDestroyed)
                  THEN [at |-> i, heap |-> hp2, deallocs |-> dl, emitted |-> em2]
                  ELSE ResetLoop(i + 1, hp2, Deallocate(dl, o), em2)
          ELSE ResetLoop(i + 1, hp, Deallocate(dl, o), em)

\* lastEntityId = 0 at the end of World::reset
ResetCounterKeep(last) == last
ResetCounter(last) == 0

\* entities.clear() at the end of World::reset
ResetClearSkipped(ents) == ents
ResetClear(ents) == <<>>

\* What World::reset does from loop state r on: suspend in the receive call, or
\* clear the sequence and reset the counter.
ResetStep(r, rest) ==
  /\ heap' = r.heap
  /\ deallocs' = r.deallocs
  /\ emitted' = r.emitted
  /\ IF r.at = 0
     THEN /\ entities' = ResetClear(entities)
          /\ lastEntityId' = ResetCounter(lastEntityId)
          /\ allocAtReset' = nAlloc
          /\ stack' = rest
     ELSE /\ stack' = Append(rest,
                        Frame("reset", OnEntityDestroyed, entities[r.at], FALSE, r.at))
          /\ UNCHANGED <<entities, lastEntityId, allocAtReset>>

\* World::reset called by the host (its subscribers' callbacks then run inside it)
Reset ==
  /\ AtHost
  /\ marked' = {}
  /\ ResetStep(ResetLoop(1, heap, deallocs, emitted), stack)
  /\ Destructors
  /\ UNCHANGED <<cursors, configured, torn, world, eachStart, view, visited,
                 removed, nAlloc, systems, subscribers, received, ticked,
                 subscribed, cleaned>>

\* ------------------------------------------------- callbacks returning
\* emit's loop: the running receive returns and the next subscriber's is called
NextSubscriber ==
  /\ stack # <<>>
  /\ Top.op # "tick"
  /\ Top.k < Len(SubList(Top.ty))
  /\ stack' = [stack EXCEPT ![Len(stack)].k = @ + 1]
  /\ received' = IF Top.op = "emit"
                 THEN Append(received, SubList(Top.ty)[Top.k + 1])
                 ELSE received
  /\ UNCHANGED <<cursors, configured, torn, world, eachStart, view, visited,
                 removed, containers, components, entities, lastEntityId, heap,
                 nAlloc, deallocs, systems, subscribers, emitted, allocAtReset,
                 ticked, subscribed, marked, cleaned>>

LastReturned(op) ==
  /\ stack # <<>>
  /\ Top.op = op
  /\ Top.k >= Len(SubList(Top.ty))

\* World::create: the last receive returned; return ent
CreateReturn ==
  /\ LastReturned("create")
  /\ stack' = Pop
  /\ UNCHANGED <<cursors, configured, torn, world, eachStart, view, visited,
                 removed, containers, components, entities, lastEntityId, heap,
                 nAlloc, deallocs, systems, subscribers, emitted, allocAtReset,
                 received, ticked, subscribed, marked, cleaned>>

\* World::destroy: the last receive returned; erase and deallocate if immediate
DestroyReturn ==
  /\ LastReturned("destroy")
  /\ DestroyFinish(Top.ent, Top.imm)
  /\ stack' = Pop
  /\ marked' = IF Top.imm THEN marked \ {Top.ent} ELSE marked
  /\ Destructors
  /\ UNCHANGED <<cursors, configured, torn, world, eachStart, view, visited,
                 removed, lastEntityId, heap, nAlloc, systems, subscribers,
                 emitted, allocAtReset, received, ticked, subscribed, cleaned>>

\* World::reset: the last receive for entities[i] returned; deallocate it and go
\* on with the loop
ResetResume ==
  /\ LastReturned("reset")
  /\ ResetStep(ResetLoop(Top.i + 1, heap, Deallocate(deallocs, Top.ent), emitted),
               Pop)
  /\ Destructors
  /\ UNCHANGED <<cursors, configured, torn, world, eachStart, view, visited,
                 removed, nAlloc, systems, subscribers, received, ticked,
                 subscribed, marked, cleaned>>

\* ---------------------------------------------------------------- emit
\* World::emit<T>(event) called by the host, up to and including the first
\* receive call
Emit(ty) ==
  /\ AtHost
  /\ IF HasSubs(ty)
     THEN /\ stack' = Append(stack, Frame("emit", ty, Null, FALSE, 0))
          /\ received' = <<SubList(ty)[1]>>
     ELSE /\ received' = <<>>
          /\ UNCHANGED stack
  /\ UNCHANGED <<cursors, configured, torn, world, eachStart, view, visited,
                 removed, containers, components, entities, lastEntityId, heap,
                 nAlloc, deallocs, systems, subscribers, emitted, allocAtReset,
                 ticked, subscribed, marked, cleaned>>

\* World::emit: the last receive returned
EmitReturn ==
  /\ LastReturned("emit")
  /\ stack' = Pop
  /\ UNCHANGED <<cursors, configured, torn, world, eachStart, view, visited,
                 removed, containers, components, entities, lastEntityId, heap,
                 nAlloc, deallocs, systems, subscribers, emitted, allocAtReset,
                 received, ticked, subscribed, marked, cleaned>>

\* ------------------------------------------------------------ components
\* an entity's map with key T set to container c / without key T
WithKey(map, T, c) == [t \in DOMAIN map \cup {T} |-> IF t = T THEN c ELSE map[t]]
WithoutKey(map, T) == [t \in DOMAIN map \ {T} |-> map[t]]

\* Entity::assign<T>(v) up to its emit.  If the map has T, the data of the
\* container it points to is overwritten; otherwise a container is allocated,
\* constructed from v and inserted.  The handle points to the container's data.
assignAlwaysAllocates(comps, cs, o, T, v) ==
  [components |-> [comps EXCEPT ![o] = WithKey(@, T, Len(cs) + 1)],
   containers |-> Append(cs, [ty |-> T, data |-> v, freed |-> 0]),
   handle |-> Len(cs) + 1]
assign(comps, cs, o, T, v) ==
  IF has(comps, o, T)
  THEN [components |-> comps,
        containers |-> [cs EXCEPT ![comps[o][T]].data = v],
        handle |-> comps[o][T]]
  ELSE [components |-> [comps EXCEPT ![o] = WithKey(@, T, Len(cs) + 1)],
        containers |-> Append(cs, [ty |-> T, data |-> v, freed |-> 0]),
        handle |-> Len(cs) + 1]

\* Both branches of assign end with world->emit<OnComponentAssigned<T>>.
AssignEmitsOnlyNew(found) == ~found
AssignEmits(found) == TRUE

\* Entity::assign<T>(v), called by the host or by a callback on an allocated
\* entity
Assign(o, T, v) ==
  /\ CanCall
  /\ ValidEntity(o)
  /\ has(components, o, T) \/ Len(containers) < MaxContainers
  /\ LET r == assign(components, containers, o, T, v)
     IN /\ components' = r.components
        /\ containers' = r.containers
        /\ stack' = IF /\ AssignEmits(has(components, o, T))
                       /\ HasSubs(OnComponentAssigned(T))
                    THEN Append(stack, Frame("assign", OnComponentAssigned(T),
                                             o, FALSE, r.handle))
                    ELSE stack
  /\ UNCHANGED <<cursors, configured, torn, world, eachStart, view, visited,
                 entities, lastEntityId, heap, nAlloc, deallocs, systems,
                 subscribers, emitted, allocAtReset, received, ticked,
                 subscribed, marked, cleaned, removed>>

\* assign returns the handle after the receive of the last subscriber returned
AssignReturn ==
  /\ LastReturned("assign")
  /\ stack' = Pop
  /\ UNCHANGED <<cursors, configured, torn, world, eachStart, view, visited,
                 entities, lastEntityId, heap, nAlloc, deallocs, systems,
                 subscribers, emitted, allocAtReset, received, ticked,
                 subscribed, marked, cleaned, components, containers, removed>>

\* Entity::remove<T>: destroys the container and erases the map entry if the
\* map has T; returns whether it did
removeKeepsEntry(comps, cs, o, T) ==
  IF has(comps, o, T)
  THEN [components |-> comps,
        containers |-> DestroyContainers(cs, {comps[o][T]}),
        ret |-> TRUE]
  ELSE [components |-> comps, containers |-> cs, ret |-> FALSE]
remove(comps, cs, o, T) ==
  IF has(comps, o, T)
  THEN [components |-> [comps EXCEPT ![o] = WithoutKey(@, T)],
        containers |-> DestroyContainers(cs, {comps[o][T]}),
        ret |-> TRUE]
  ELSE [components |-> comps, containers |-> cs, ret |-> FALSE]

Remove(o, T) ==
  /\ CanCall
  /\ ValidEntity(o)
  /\ LET r == remove(components, containers, o, T)
     IN /\ components' = r.components
        /\ containers' = r.containers
        /\ removed' = r.ret
  /\ UNCHANGED <<cursors, configured, torn, world, eachStart, view, visited,
                 entities, lastEntityId, heap, nAlloc, deallocs, systems,
                 subscribers, stack, emitted, allocAtReset, received, ticked,
                 subscribed, marked, cleaned>>

\* Entity::removeAll: destroys every container of the map and clears the map
RemoveAll(o) ==
  /\ CanCall
  /\ ValidEntity(o)
  /\ containers' = DestroyContainers(containers, Held(components, o))
  /\ components' = [components EXCEPT ![o] = <<>>]
  /\ UNCHANGED <<cursors, configured, torn, world, eachStart, view, visited,
                 entities, lastEntityId, heap, nAlloc, deallocs, systems,
                 subscribers, stack, emitted, allocAtReset, received, ticked,
                 subscribed, marked, cleaned, removed>>

\* ------------------------------------------------------------ unsubscribe
\* World::unsubscribe<T>(subscriber).  The body computes `index` and then
\* tests and dereferences `found`, a name that neither the function nor the
\* class nor the namespace declares: no lookup gives it a value, the template
\* has no instantiation, and a program that calls it does not build.  The
\* call therefore has no outcome: `found` ranges over the empty set.
Unsubscribe(ty, s) ==
  /\ AtHost
  /\ \E found \in {} :
       subscribers' =
         IF found \in DOMAIN subscribers
         THEN IF Erase(subscribers[found], s) = <<>>
              THEN [t \in DOMAIN subscribers \ {found} |-> subscribers[t]]
              ELSE [subscribers EXCEPT ![found] = Erase(@, s)]
         ELSE subscribers
  /\ UNCHANGED <<cursors, configured, torn, world, eachStart, view, visited,
                 removed, containers, components, entities, lastEntityId, heap,
                 nAlloc, deallocs, systems, stack, emitted, allocAtReset,
                 received, ticked, subscribed, marked, cleaned>>

\* ---------------------------------------------------------- unsubscribeAll
\* The types whose list holds nothing but `subscriber`: for these the copy
\* kv.second is empty after the erase-remove, and subscribers.erase(kv.first)
\* runs.
EmptiedBy(reg, s) ==
  {t \in DOMAIN reg : Erase(reg[t], s) = <<>>}

\* The subscribe calls that no unsubscribeAll(s) call has taken back.
WithoutSubscriber(reg, s) ==
  [t \in DOMAIN reg \ EmptiedBy(reg, s) |-> Erase(reg[t], s)]

\* World::unsubscribeAll(subscriber), called by the host.  The range-for binds
\* `auto kv`, a copy of each registry entry: the erase-remove shortens the
\* copy, and the registry's own list keeps the subscriber.  Only
\* subscribers.erase(kv.first) touches the registry, and it runs for the types
\* of EmptiedBy.  That erase invalidates the iterator the range-for increments
\* next (undefined behaviour): the loop may go on over the other entries, in
\* the map's unspecified order, or end early, so any non-empty set of the
\* emptied types may be the one erased.
UnsubscribeAll(s) ==
  /\ AtHost
  /\ LET emptied == EmptiedBy(subscribers, s)
     IN \E D \in SUBSET emptied :
          /\ emptied # {} => D # {}
          /\ subscribers' = [t \in DOMAIN subscribers \ D |-> subscribers[t]]
  /\ subscribed' = WithoutSubscriber(subscribed, s)
  /\ UNCHANGED <<cursors, configured, torn, world, eachStart, view, visited,
                 removed, containers, components, entities, lastEntityId, heap,
                 nAlloc, deallocs, systems, stack, emitted, allocAtReset,
                 received, ticked, marked, cleaned>>

\* --------------------------------------------------------------- systems
\* World::registerSystem: push_back, then EntitySystem::configure (which does
\* nothing unless overridden)
RegisterSystem(s) ==
  /\ AtHost
  /\ Len(systems) < MaxRegistrations
  /\ systems' = Append(systems, s)
  /\ configured' = [configured EXCEPT ![s] = TRUE]
  /\ UNCHANGED <<cursors, torn, world, eachStart, view, visited, removed,
                 containers, components, entities, lastEntityId, heap, nAlloc,
                 deallocs, subscribers, stack, emitted, allocAtReset, received,
                 ticked, subscribed, marked, cleaned>>

\* World::unregisterSystem: erase(remove(...)), then EntitySystem::unconfigure,
\* whether or not the system was in the sequence
Unconfigure(cfg, s) == [cfg EXCEPT ![s] = FALSE]

UnregisterSystem(s) ==
  /\ AtHost
  /\ systems' = Erase(systems, s)
  /\ configured' = Unconfigure(configured, s)
  /\ UNCHANGED <<cursors, torn, world, eachStart, view, visited, removed,
                 containers, components, entities, lastEntityId, heap, nAlloc,
                 deallocs, subscribers, stack, emitted, allocAtReset, received,
                 ticked, subscribed, marked, cleaned>>

\* ------------------------------------------------------------------ tick
\* The cleanup() at the head of World::tick (ECS_TICK_NO_CLEANUP not defined)
TickCleanupSkipped(ents, hp, dl) == [kept |-> ents, deallocs |-> dl, ret |-> FALSE]
TickCleanup(ents, hp, dl) == cleanup(ents, hp, dl)

\* The position in World::systems of the system ticked after position k
TickSuccessorSkip(k) == k + 2
TickSuccessor(k) == k + 1

NoTicks == [s \in System |-> 0]

\* World::tick called by the host, up to and including the first system's tick
Tick ==
  /\ AtHost
  /\ LET r == TickCleanup(entities, heap, deallocs)
     IN /\ entities' = r.kept
        /\ deallocs' = r.deallocs
  /\ marked' = {}
  /\ LET k == TickSuccessor(0)
     IN IF k <= Len(systems)
        THEN /\ stack' = <<[Frame("tick", "tick", Null, FALSE, 0) EXCEPT !.k = k]>>
             /\ ticked' = [NoTicks EXCEPT ![systems[k]] = 1]
        ELSE /\ stack' = stack
             /\ ticked' = NoTicks
  /\ Destructors
  /\ UNCHANGED <<cursors, configured, torn, world, eachStart, view, visited,
                 removed, lastEntityId, heap, nAlloc, systems, subscribers,
                 emitted, allocAtReset, received, subscribed, cleaned>>

\* World::tick: the running system's tick returns; the next system's is called,
\* or tick returns
TickNext ==
  /\ stack # <<>>
  /\ Top.op = "tick"
  /\ LET k == TickSuccessor(Top.k)
     IN IF k <= Len(systems)
        THEN /\ stack' = [stack EXCEPT ![Len(stack)].k = k]
             /\ ticked' = [ticked EXCEPT ![systems[k]] = @ + 1]
        ELSE /\ stack' = Pop
             /\ UNCHANGED ticked
  /\ UNCHANGED <<cursors, configured, torn, world, eachStart, view, visited,
                 removed, containers, components, entities, lastEntityId, heap,
                 nAlloc, deallocs, systems, subscribers, emitted, allocAtReset,
                 received, subscribed, marked, cleaned>>

\* ------------------------------------------------------------ each / all
\* Entity::has<T, V, Types...>: the entity has every type of the list
hasAll(comps, o, Types) == \A T \in Types : has(comps, o, T)

\* What operator++ and the view constructors skip: an entity without all of
\* Types, or pending destroy when the caller did not ask for those.  The
\* EntityIterator of World::all tests no component: Types is empty.
Filtered(hp, comps, Types, incl, o) ==
  \/ ~hasAll(comps, o, Types)
  \/ isPendingDestroy(hp, o) /\ ~incl

\* isEnd(): bIsEnd || index >= world->getCount().  bIsEnd is set only when
\* index >= getCount() was seen, and the count does not change while a view
\* is walked by callbacks that neither create nor destroy.
isEnd(ents, index) == index >= getCount(ents)

\* The while loop of operator++
RECURSIVE SkipFiltered(_, _, _, _, _, _)
SkipFiltered(ents, hp, comps, Types, incl, index) ==
  IF /\ index < getCount(ents)
     /\ \/ getByIndex(ents, index) = Null
        \/ Filtered(hp, comps, Types, incl, getByIndex(ents, index))
  THEN SkipFiltered(ents, hp, comps, Types, incl, index + 1)
  ELSE index

\* operator++: ++index, then skip
Increment(ents, hp, comps, Types, incl, index) ==
  SkipFiltered(ents, hp, comps, Types, incl, index + 1)

\* begin() of the view: the iterator made at index 0, which the view's
\* constructor increments when it is at the end or on a filtered-out entity
FirstCursorAtZero(ents, hp, comps, Types, incl) == 0
FirstCursor(ents, hp, comps, Types, incl) ==
  IF \/ isEnd(ents, 0)
     \/ Filtered(hp, comps, Types, incl, getByIndex(ents, 0))
  THEN Increment(ents, hp, comps, Types, incl, 0)
  ELSE 0

\* operator!= against end(), whose index is the count: the range-for goes on
NotAtEnd(ents, index) ==
  IF isEnd(ents, index) THEN FALSE ELSE index # getCount(ents)

NoComponents == [o \in Obj |-> <<>>]

\* The range-for of World::each(viewFunc) / World::all(viewFunc) with its
\* cursor at index: call viewFunc with the entity there, or return.
Visit(op, index, seen) ==
  IF NotAtEnd(entities, index)
  THEN /\ visited' = Append(seen, getByIndex(entities, index))
       /\ stack' = IF stack # <<>> /\ Top.op = op
                   THEN [stack EXCEPT ![Len(stack)].i = index]
                   ELSE Append(stack, Frame(op, op, Null, view'.incl, index))
       /\ eachStart' = IF stack # <<>> /\ Top.op = op THEN eachStart ELSE components
  ELSE /\ visited' = seen
       /\ stack' = IF stack # <<>> /\ Top.op = op THEN Pop ELSE stack
       /\ eachStart' = NoComponents

\* World::each<Types...>(viewFunc, bIncludePendingDestroy), and with no Types
\* World::all(viewFunc, bIncludePendingDestroy), called by the host: up to and
\* including the first call of viewFunc
Each(Types, incl) ==
  /\ AtHost
  /\ view' = [types |-> Types, incl |-> incl]
  /\ Visit(IF Types = {} THEN "all" ELSE "each",
           FirstCursor(entities, heap, components, Types, incl), <<>>)
  /\ UNCHANGED <<cursors, configured, torn, world, removed, containers,
                 components, entities, lastEntityId, heap, nAlloc, deallocs,
                 systems, subscribers, emitted, allocAtReset, received, ticked,
                 subscribed, marked, cleaned>>

\* viewFunc returned: ++it, and the next call of viewFunc or the return
EachNext ==
  /\ stack # <<>>
  /\ Top.op \in {"each", "all"}
  /\ view' = view
  /\ Visit(Top.op,
           Increment(entities, heap, components, view.types, view.incl, Top.i),
           visited)
  /\ UNCHANGED <<cursors, configured, torn, world, removed, containers,
                 components, entities, lastEntityId, heap, nAlloc, deallocs,
                 systems, subscribers, emitted, allocAtReset, received, ticked,
                 subscribed, marked, cleaned>>

\* The host creates and destroys entities, then walks them
NotWalked == visited = <<>> /\ view = [types |-> {}, incl |-> FALSE]
HostCreate == AtHost /\ NotWalked /\ Create
HostDestroy(o, imm) == AtHost /\ NotWalked /\ Destroy(o, imm)

\* -------------------------------------------------------------------
\* View cursors: EntityIterator (471-527, 1064-1096) and
\* EntityComponentIterator<Types...> (559-640).  The two classes differ only
\* in the has<Types...>() test of operator++; an EntityIterator is a cursor
\* with no Types.  A cursor is [index, bIsEnd, incl, types]; all cursors of the
\* model reference the one World of the model.

\* The constructor: bIsEnd as passed, set when index >= getCount()
EntityIterator(ents, index, bIsEnd, incl, Types) ==
  [index |-> index, bIsEnd |-> bIsEnd \/ index >= getCount(ents),
   incl |-> incl, types |-> Types]

\* isEnd() const: the flag, or the index against the count of the moment
itIsEnd(ents, it) == it.bIsEnd \/ it.index >= getCount(ents)

\* get() const
itGet(ents, it) == IF itIsEnd(ents, it) THEN Null ELSE getByIndex(ents, it.index)

\* operator== and operator!= for cursors of one World
itEqualByIndex(ents, a, b) == a.index = b.index
itEqual(ents, a, b) ==
  IF itIsEnd(ents, a) THEN itIsEnd(ents, b) ELSE a.index = b.index

itNotEqualBelow(ents, a, b) ==
  IF itIsEnd(ents, a) THEN ~itIsEnd(ents, b) ELSE a.index < b.index
itNotEqual(ents, a, b) ==
  IF itIsEnd(ents, a) THEN ~itIsEnd(ents, b) ELSE a.index # b.index

\* The while loop of operator++: get() is nullptr at every index once bIsEnd
\* is set, so such a cursor runs to the count
RECURSIVE itSkip(_, _, _, _)
itSkip(ents, hp, comps, it) ==
  IF /\ it.index < getCount(ents)
     /\ \/ itGet(ents, it) = Null
        \/ Filtered(hp, comps, it.types, it.incl, itGet(ents, it))
  THEN itSkip(ents, hp, comps, [it EXCEPT !.index = @ + 1])
  ELSE it

\* operator++
itIncrementOnly(ents, hp, comps, it) ==
  [it EXCEPT !.index = @ + 1, !.bIsEnd = @ \/ it.index + 1 >= getCount(ents)]
itIncrement(ents, hp, comps, it) ==
  LET at == itSkip(ents, hp, comps, [it EXCEPT !.index = @ + 1])
  IN [at EXCEPT !.bIsEnd = @ \/ at.index >= getCount(ents)]

\* begin() of World::all(incl) / World::each<Types...>(incl): the iterator
\* made at index 0, incremented by the view's constructor when it is at the
\* end or on a filtered-out entity
viewBegin(ents, hp, comps, Types, incl) ==
  LET first == EntityIterator(ents, 0, FALSE, incl, Types)
  IN IF \/ itGet(ents, first) = Null
        \/ Filtered(hp, comps, Types, incl, itGet(ents, first))
     THEN itIncrement(ents, hp, comps, first)
     ELSE first

\* end() of the view: the iterator made at getCount() with bIsEnd
viewEnd(ents, Types, incl) == EntityIterator(ents, getCount(ents), TRUE, incl, Types)

\* The host keeps view.begin() or view.end() of a new view
KeepUnchanged ==
  UNCHANGED <<configured, torn, world, eachStart, view, visited, removed, containers,
              components, entities, lastEntityId, heap, nAlloc, deallocs, systems,
              subscribers, stack, emitted, allocAtReset, received, ticked,
              subscribed, marked, cleaned>>

KeepBegin(Types, incl) ==
  /\ AtHost
  /\ Len(cursors) < MaxCursors
  /\ cursors' = Append(cursors, viewBegin(entities, heap, components, Types, incl))
  /\ KeepUnchanged

KeepEnd(Types, incl) ==
  /\ AtHost
  /\ Len(cursors) < MaxCursors
  /\ cursors' = Append(cursors, viewEnd(entities, Types, incl))
  /\ KeepUnchanged

\* The host increments a cursor it holds
Advance(k) ==
  /\ AtHost
  /\ k \in DOMAIN cursors
  /\ cursors[k].index <= getCount(entities)
  /\ cursors' = [cursors EXCEPT ![k] = itIncrement(entities, heap, components, @)]
  /\ KeepUnchanged

\* -------------------------------------------------------------------
\* World::each(viewFunc) / World::all(viewFunc) (949-967) with callbacks that
\* create or destroy entities: the range-for holds the view's two cursors,
\* cursors[1] = the loop's iterator and cursors[2] = end(), built when the
\* call began, and evaluates it != end, *it and ++it on the sequence as the
\* callbacks left it.

InWalk == stack # <<>> /\ Top.op \in {"each", "all"}

\* it != end: call viewFunc with *it, or leave the loop and drop the cursors
WalkVisit(op, it, end, seen) ==
  IF itNotEqual(entities, it, end)
  THEN /\ visited' = Append(seen, itGet(entities, it))
       /\ cursors' = <<it, end>>
       /\ stack' = IF InWalk THEN stack
                   ELSE Append(stack, Frame(op, op, Null, it.incl, 0))
  ELSE /\ visited' = seen
       /\ cursors' = <<>>
       /\ stack' = IF InWalk THEN Pop ELSE stack

WalkUnchanged ==
  UNCHANGED <<configured, torn, world, eachStart, removed, containers, components,
              entities, lastEntityId, heap, nAlloc, deallocs, systems, subscribers,
              emitted, allocAtReset, received, ticked, subscribed, marked, cleaned>>

\* The call by the host, up to and including the first call of viewFunc
Walk(Types, incl) ==
  /\ AtHost
  /\ cursors = <<>>
  /\ view' = [types |-> Types, incl |-> incl]
  /\ WalkVisit(IF Types = {} THEN "all" ELSE "each",
               viewBegin(entities, heap, components, Types, incl),
               viewEnd(entities, Types, incl), <<>>)
  /\ WalkUnchanged

\* viewFunc returned: ++it, and the next call of viewFunc or the return
WalkNext ==
  /\ InWalk
  /\ view' = view
  /\ WalkVisit(Top.op, itIncrement(entities, heap, components, cursors[1]),
               cursors[2], visited)
  /\ WalkUnchanged

\* What viewFunc does: destroy(x) of any entity, deferred, or create()
CallbackDestroy(o) == InWalk /\ Destroy(o, FALSE)
CallbackCreate == InWalk /\ Create

CallbackAssign(o, T) == InWalk /\ Assign(o, T, 1)

\* The host gives components to entities before the walk
HostAssign(o, T) == AtHost /\ NotWalked /\ Assign(o, T, 1)

\* ----------------------------------------------------------- destroyWorld
\* World::destroyWorld destroys and deallocates the World; all the work is in
\* World::~World.  Its loop over the entities is the loop of World::reset.
DtorEntities(i, hp, dl, em) == ResetLoop(i, hp, dl, em)

\* The loop over the systems of ~World from position k on, t being the
\* unconfigure calls made so far: each entry is unconfigured, destroyed and
\* deallocated.  An entry whose system an earlier entry already deallocated
\* (registerSystem pushed it twice) is a call through a dangling pointer and a
\* second deallocation: either they go through as on a live object or the
\* program stops there.
RECURSIVE DtorSystems(_, _)
DtorSystems(k, t) ==
  IF k > Len(systems)
  THEN {[torn |-> t, world |-> "destroyed"]}
  ELSE IF \E j \in 1..(k - 1) : systems[j] = systems[k]
       THEN {[torn |-> t, world |-> "crashed"]}
              \cup DtorSystems(k + 1, Append(t, systems[k]))
       ELSE DtorSystems(k + 1, Append(t, systems[k]))

\* What ~World does from loop state r of its first loop on: suspend in the
\* receive call, or go through the systems and end.  (World::entities and
\* World::systems are members of the destroyed object; they are kept as they
\* were when the destructor ran.)
DtorStep(r, rest) ==
  /\ heap' = r.heap
  /\ deallocs' = r.deallocs
  /\ emitted' = r.emitted
  /\ IF r.at = 0
     THEN /\ \E out \in DtorSystems(1, <<>>) :
               /\ torn' = out.torn
               /\ world' = out.world
               /\ configured' =
                    [s \in System |->
                       IF \E j \in 1..Len(out.torn) : out.torn[j] = s
                       THEN FALSE ELSE configured[s]]
          /\ stack' = rest
     ELSE /\ stack' = Append(rest, Frame("destroyWorld", OnEntityDestroyed,
                                         entities[r.at], FALSE, r.at))
          /\ UNCHANGED <<torn, world, configured>>

\* World::destroyWorld called by the host (its subscribers' callbacks then run
\* inside it)
DestroyWorld ==
  /\ AtHost
  /\ DtorStep(DtorEntities(1, heap, deallocs, emitted), stack)
  /\ Destructors
  /\ UNCHANGED <<cursors, eachStart, view, visited, removed, entities,
                 lastEntityId, nAlloc, systems, subscribers, allocAtReset,
                 received, ticked, subscribed, marked, cleaned>>

\* ~World: the last receive for entities[i] returned; deallocate it and go on
DestroyWorldResume ==
  /\ LastReturned("destroyWorld")
  /\ DtorStep(DtorEntities(Top.i + 1, heap, Deallocate(deallocs, Top.ent), emitted),
              Pop)
  /\ Destructors
  /\ UNCHANGED <<cursors, eachStart, view, visited, removed, entities,
                 lastEntityId, nAlloc, systems, subscribers, allocAtReset,
                 received, ticked, subscribed, marked, cleaned>>

\* --------------------------------------------- destroy, dangling pointer
\* World::destroy(ent, true) with a pointer to an Entity that an earlier
\* immediate destroy, cleanup or reset destroyed and deallocated.  The code
\* tests only ent == nullptr, so it reads ent->isPendingDestroy() from the
\* freed storage, which may read as the flag was left or as anything else, and
\* goes on as for a live entity: std::remove finds nothing to erase, and the
\* entity is destroyed and deallocated again, which either goes through or
\* stops the program.
DestroyDangling(o) ==
  /\ CanCall
  /\ ~InRangeFor
  /\ o \in 1..nAlloc
  /\ deallocs[o] > 0
  /\ deallocs[o] < MaxDeallocs
  /\ \E pending \in BOOLEAN, stops \in BOOLEAN :
       IF pending
       THEN /\ IF stops
               THEN /\ world' = "crashed"
                    /\ UNCHANGED <<entities, deallocs>>
               ELSE /\ DestroyFinish(o, TRUE)
                    /\ world' = world
            /\ UNCHANGED <<heap, emitted, stack>>
       ELSE /\ heap' = MarkPending(heap, o)
            /\ emitted' = [emitted EXCEPT ![o] = @ + 1]
            /\ IF HasSubs(OnEntityDestroyed)
               THEN /\ stack' = Append(stack,
                                  Frame("destroy", OnEntityDestroyed, o, TRUE, 0))
                    /\ UNCHANGED <<entities, deallocs, world>>
               ELSE /\ IF stops
                       THEN /\ world' = "crashed"
                            /\ UNCHANGED <<entities, deallocs>>
                       ELSE /\ DestroyFinish(o, TRUE)
                            /\ world' = world
                    /\ UNCHANGED stack
  /\ Destructors
  /\ UNCHANGED <<cursors, configured, torn, eachStart, view, visited, removed,
                 lastEntityId, nAlloc, systems, subscribers, allocAtReset,
                 received, ticked, subscribed, marked, cleaned>>

\* ------------------------------------------------------- specifications
\* Entities: their creation, destruction and reclamation, with subscribers to
\* the World's own entity events that call back into the World.
Next ==
  \/ \E ty \in EntityEvents : Subscribe(ty, 1)
  \/ Create
  \/ \E o \in Obj, imm \in BOOLEAN : Destroy(o, imm)
  \/ Cleanup
  \/ Reset
  \/ Tick
  \/ \E ty \in UserEvents : Emit(ty)
  \/ NextSubscriber
  \/ CreateReturn
  \/ DestroyReturn
  \/ ResetResume

Spec == Init /\ [][Next]_vars

\* Systems: registration and World::tick, with systems whose tick creates and
\* destroys entities.
NextTick ==
  \/ \E s \in System : RegisterSystem(s)
  \/ \E s \in System : UnregisterSystem(s)
  \/ Tick
  \/ TickNext
  \/ Create
  \/ \E o \in Obj, imm \in BOOLEAN : Destroy(o, imm)
  \/ Cleanup

SpecTick == Init /\ [][NextTick]_vars

\* Events: subscription and emission of host-defined event types.
NextEmit ==
  \/ \E ty \in UserEvents, s \in Subscriber : Subscribe(ty, s)
  \/ \E ty \in UserEvents : Emit(ty)
  \/ NextSubscriber
  \/ EmitReturn

SpecEmit == Init /\ [][NextEmit]_vars

\* Subscribers that come and go: subscribe, unsubscribeAll and emit of user events.
NextUnsub ==
  \/ \E ty \in UserEvents, s \in Subscriber : Subscribe(ty, s)
  \/ \E s \in Subscriber : UnsubscribeAll(s)
  \/ \E ty \in UserEvents : Emit(ty)
  \/ NextSubscriber
  \/ EmitReturn

SpecUnsub == Init /\ [][NextUnsub]_vars

\* Entities and their components: assign, remove and removeAll called by the
\* host in a world without subscribers.
NextComp ==
  \/ Create
  \/ \E o \in Obj, T \in CompType, v \in Value : Assign(o, T, v)
  \/ \E o \in Obj, T \in CompType : Remove(o, T)
  \/ \E o \in Obj : RemoveAll(o)

SpecComp == Init /\ [][NextComp]_vars

\* assign with subscribers of OnComponentAssigned, whose receive callbacks
\* create entities and assign and remove components.
NextAssign ==
  \/ \E ty \in ComponentEvents : Subscribe(ty, 1)
  \/ Create
  \/ \E o \in Obj, T \in CompType, v \in Value : Assign(o, T, v)
  \/ \E o \in Obj, T \in CompType : Remove(o, T)
  \/ NextSubscriber
  \/ AssignReturn

SpecAssign == Init /\ [][NextAssign]_vars

\* World::each and World::all over entities with components, some pending
\* destroy; the viewFunc callbacks assign and remove components.
NextEach ==
  \/ HostCreate
  \/ \E o \in Obj : HostDestroy(o, FALSE)
  \/ \E o \in Obj, T \in CompType : Assign(o, T, 1)
  \/ \E Types \in {{}, {"X"}, {"X", "Y"}}, incl \in BOOLEAN : Each(Types, incl)
  \/ EachNext

SpecEach == Init /\ [][NextEach]_vars

\* The teardown of a world with entities, some pending destroy, registered
\* systems and subscribers of OnEntityDestroyed.
NextWorld ==
  \/ Subscribe(OnEntityDestroyed, 1)
  \/ Create
  \/ \E o \in Obj : Destroy(o, FALSE)
  \/ DestroyReturn
  \/ \E s \in System : RegisterSystem(s)
  \/ \E s \in System : UnregisterSystem(s)
  \/ DestroyWorld
  \/ DestroyWorldResume
  \/ NextSubscriber

SpecWorld == Init /\ [][NextWorld]_vars

\* destroy called again with the pointer of an entity it has deallocated
NextDangling ==
  \/ Subscribe(OnEntityDestroyed, 1)
  \/ Create
  \/ \E o \in Obj, imm \in BOOLEAN : Destroy(o, imm)
  \/ \E o \in Obj : DestroyDangling(o)
  \/ DestroyReturn
  \/ NextSubscriber

SpecDangling == Init /\ [][NextDangling]_vars

\* Entities with components and every operation that deallocates entities:
\* immediate destroy, cleanup, reset and destroyWorld, with a subscriber of
\* OnEntityDestroyed whose callback assigns and removes components and
\* destroys entities.  An immediate destroy delivers the event before it
\* erases and deallocates (802-811): a callback that reclaims that same entity
\* makes the code deallocate it a second time, which is the undefined
\* behaviour studied under SpecDangling, and is left out here.
Reclaiming(o) ==
  \E j \in 1..Len(stack) :
    stack[j].op = "destroy" /\ stack[j].ent = o /\ stack[j].imm

OwnDestroy(o, imm) == ~(imm /\ Reclaiming(o)) /\ Destroy(o, imm)

OwnCleanup == (\A o \in Obj : ~Reclaiming(o)) /\ Cleanup

NextOwn ==
  \/ Subscribe(OnEntityDestroyed, 1)
  \/ Create
  \/ \E o \in Obj, T \in CompType : Assign(o, T, 1)
  \/ \E o \in Obj, T \in CompType : Remove(o, T)
  \/ \E o \in Obj, imm \in BOOLEAN : OwnDestroy(o, imm)
  \/ OwnCleanup
  \/ Reset
  \/ DestroyWorld
  \/ NextSubscriber
  \/ DestroyReturn
  \/ ResetResume
  \/ DestroyWorldResume

SpecOwn == Init /\ [][NextOwn]_vars

\* The host creates and destroys entities and, in between, builds cursors of
\* World::all() views and increments them.
NextCursor ==
  \/ HostCreate
  \/ \E o \in Obj, imm \in BOOLEAN : HostDestroy(o, imm)
  \/ KeepBegin({}, FALSE)
  \/ KeepEnd({}, FALSE)
  \/ \E k \in 1..MaxCursors : Advance(k)

SpecCursor == Init /\ [][NextCursor]_vars

\* A walk whose callbacks destroy entities, deferred, and create none.  The
\* range-for goes on whenever viewFunc returns.
NextDefer ==
  \/ HostCreate
  \/ \E o \in Obj : HostDestroy(o, FALSE)
  \/ \E o \in Obj : HostAssign(o, "X")
  \/ \E Types \in {{}, {"X"}}, incl \in BOOLEAN : Walk(Types, incl)
  \/ \E o \in Obj : CallbackDestroy(o)
  \/ WalkNext

SpecDefer == Init /\ [][NextDefer]_vars /\ WF_vars(WalkNext)

\* A walk whose callbacks create entities, give them components and destroy
\* entities, deferred.
NextGrow ==
  \/ HostCreate
  \/ \E o \in Obj : HostAssign(o, "X")
  \/ \E Types \in {{}, {"X"}}, incl \in BOOLEAN : Walk(Types, incl)
  \/ CallbackCreate
  \/ \E o \in Obj : CallbackAssign(o, "X")
  \/ \E o \in Obj : CallbackDestroy(o)
  \/ WalkNext

SpecGrow == Init /\ [][NextGrow]_vars

\* ===================================================================
\* Properties
\* ===================================================================
Range(s) == {s[i] : i \in 1..Len(s)}

IndexOf(s, x) == CHOOSE i \in 1..Len(s) : s[i] = x

RECURSIVE Count(_, _)
Count(s, x) ==
  IF s = <<>> THEN 0
  ELSE (IF Head(s) = x THEN 1 ELSE 0) + Count(Tail(s), x)

\* Every entity of the sequence is allocated, so that reading its id or its
\* flag is defined.
SequenceIntact(ents, dl) == \A o \in Range(ents) : dl[o] = 0

SubscribedTo(ty) == IF ty \in DOMAIN subscribed THEN subscribed[ty] ELSE <<>>

\* ------------------------------------------------------------------- C1
\* C1: OnEntityDestroyed has been emitted for an entity exactly once if its
\* pending-destroy flag is set and never if it is not, in every state: so it is
\* emitted at most once, in the very step that sets the flag, and a destroy of
\* an entity that is already pending (also one made from inside a receive
\* callback of that event) emits nothing.
C1_DestroyedOnce ==
  \A o \in Obj :
    emitted[o] = IF o <= nAlloc /\ isPendingDestroy(heap, o) THEN 1 ELSE 0

\* A receive callback of OnEntityDestroyed for an entity is running, and that
\* entity was destroyed again, immediately, from inside the callback.
C1_Witness ==
  \E j \in 1..Len(stack) :
    /\ stack[j].op = "destroy"
    /\ deallocs[stack[j].ent] = 1
    /\ stack[j].ent \notin Range(entities)
    /\ emitted[stack[j].ent] = 1

\* ------------------------------------------------------------------- C2
\* The steps that may take a pending entity o out of the sequence.
Reclaims(o) ==
  \/ Cleanup
  \/ Tick
  \/ Reset
  \/ ResetResume
  \/ Destroy(o, TRUE)
  \/ (DestroyReturn /\ Top.ent = o /\ Top.imm)

\* C2: destroy(e, false) on a live entity sets its flag and leaves the sequence
\* as it is (same positions, same getCount), with getById(e.id) = e; and a
\* pending entity of the sequence leaves it only in a step of cleanup, tick,
\* reset or destroy(e, true): in every other step it stays in the sequence,
\* pending, at the same relative position and found by getById.
C2_PendingStays ==
  [][LET before == Range(entities)
         after == Range(entities')
         Stays(x) == x \in after
         Was(x) == x \in before
     IN /\ \A o \in before :
             (~isPendingDestroy(heap, o) /\ Destroy(o, FALSE)) =>
               /\ isPendingDestroy(heap', o)
               /\ entities' = entities
               /\ getCount(entities') = getCount(entities)
               /\ SequenceIntact(entities', deallocs') =>
                    getById(entities', heap', lastEntityId', heap'[o].id) = o
        /\ \A o \in before :
             isPendingDestroy(heap, o) =>
               IF o \notin after
               THEN Reclaims(o)
               ELSE /\ isPendingDestroy(heap', o)
                    /\ SelectSeq(entities, Stays) = SelectSeq(entities', Was)
                    /\ SequenceIntact(entities', deallocs') =>
                         getById(entities', heap', lastEntityId', heap'[o].id) = o
    ]_vars

\* A pending entity sits in the middle of the sequence, after an entity created
\* before it and before one created after it.
C2_Witness ==
  /\ entities = <<1, 2, 3>>
  /\ isPendingDestroy(heap, 2)
  /\ ~isPendingDestroy(heap, 1)
  /\ ~isPendingDestroy(heap, 3)

\* ------------------------------------------------------------------- C3
\* C3: a cleanup() call removes exactly the entities whose flag is set, keeps
\* the others in order, deallocates each removed entity once and no other,
\* emits nothing (no emit call, no receive), and returns TRUE exactly when it
\* removed something.
C3_Cleanup ==
  [][Cleanup =>
       LET pend == {o \in Range(entities) : isPendingDestroy(heap, o)}
           Keep(o) == o \notin pend
       IN /\ entities' = SelectSeq(entities, Keep)
          /\ \A o \in Obj :
               deallocs'[o] = deallocs[o] + (IF o \in pend THEN 1 ELSE 0)
          /\ emitted' = emitted
          /\ stack' = stack
          /\ received' = received
          /\ cleaned' <=> (getCount(entities') < getCount(entities))
    ]_vars

\* cleanup() returned TRUE after it took the pending entity 2 out from between
\* two live ones.
C3_Witness ==
  /\ cleaned
  /\ entities = <<1, 3>>
  /\ deallocs[2] = 1
  /\ emitted[2] = 1
  /\ ~isPendingDestroy(heap, 1)
  /\ ~isPendingDestroy(heap, 3)

\* ------------------------------------------------------------------- C4
\* C4: tick reclaims before it ticks the systems: after the step that enters
\* tick (and the first system's tick) no entity of the sequence is pending and
\* the entities systems marked in the previous tick are gone; the systems are
\* ticked in registration order; and an entity a system marks (immediate =
\* false) during a tick stays in the sequence, pending, until the next tick
\* starts (or the host reclaims it itself).
C4_CleanupBeforeSystems ==
  /\ [](\A o \in marked : o \in Range(entities) /\ isPendingDestroy(heap, o))
  /\ [](\A j \in 1..Len(stack) : stack[j].op = "tick" =>
          \A s \in System : ticked[s] = Count(SubSeq(systems, 1, stack[j].k), s))
  /\ [][Tick =>
          /\ \A o \in Range(entities') : ~isPendingDestroy(heap', o)
          /\ marked \cap Range(entities') = {}
       ]_vars

\* tick has returned; an entity that a system destroyed during it is still in
\* the sequence.
C4_Witness ==
  /\ AtHost
  /\ systems # <<>>
  /\ marked # {}
  /\ \E o \in marked : o \in Range(entities)

\* ------------------------------------------------------------------- C5
TickCompletes == (Tick \/ TickNext) /\ stack' = <<>>

C6_IdsFromOne ==
  /\ \A o \in 1..nAlloc : heap[o].id # InvalidEntityId
  /\ allocAtReset = 0 =>
       /\ \A o \in 1..nAlloc : heap[o].id = o
       /\ lastEntityId = nAlloc
       /\ (\A o \in 1..nAlloc : deallocs[o] = 0) => getCount(entities) = nAlloc

\* The third create() returned id 3 after the first entity had been destroyed
\* and reclaimed by cleanup().
C6_Witness ==
  /\ allocAtReset = 0
  /\ nAlloc = 3
  /\ heap[3].id = 3
  /\ deallocs[1] = 1
  /\ cleaned

\* ------------------------------------------------------------------- C7
\* C7: along the sequence the ids are strictly increasing, and every id of the
\* sequence lies in 1..lastEntityId.
C7_IdsIncreasing ==
  /\ \A i, j \in 1..Len(entities) :
       i < j => heap[entities[i]].id < heap[entities[j]].id
  /\ \A i \in 1..Len(entities) :
       heap[entities[i]].id \in 1..lastEntityId

\* After a reset, two entities (ids 1 and 2 again) are in the sequence, the
\* first of them pending.
C7_Witness ==
  /\ allocAtReset = 1
  /\ entities = <<2, 3>>
  /\ isPendingDestroy(heap, 2)
  /\ heap[3].id = 2

\* ------------------------------------------------------------------- C8
\* C8: when no create() has been called since reset() returned, the sequence is
\* empty, the counter is 0 and getById finds no id; and the first create()
\* after a reset makes an entity with id 1.
C8_ResetRestartsIds ==
  /\ nAlloc = allocAtReset =>
       /\ getCount(entities) = 0
       /\ lastEntityId = 0
       /\ \A id \in 0..MaxEntities :
            getById(entities, heap, lastEntityId, id) = Null
  /\ nAlloc > allocAtReset => heap[allocAtReset + 1].id = 1

\* reset() ran over two entities (ids 1 and 2), and the create() after it
\* returned id 1.
C8_Witness ==
  /\ allocAtReset = 2
  /\ nAlloc = 3
  /\ deallocs[1] = 1
  /\ deallocs[2] = 1
  /\ entities = <<3>>
  /\ heap[3].id = 1

\* ------------------------------------------------------------------- C9
\* C9: while every entity of the sequence is allocated, getById(id) is the
\* entity of the sequence with that id if there is one and absent if there is
\* none; it is absent for id 0 and for every id above the last issued one.
C9_GetById ==
  SequenceIntact(entities, deallocs) =>
    \A id \in 0..(MaxEntities + 1) :
      LET r == getById(entities, heap, lastEntityId, id)
      IN /\ (\E o \in Range(entities) : heap[o].id = id) =>
              (r \in Range(entities) /\ heap[r].id = id)
         /\ (~\E o \in Range(entities) : heap[o].id = id) => r = Null
         /\ (id = 0 \/ id > lastEntityId) => r = Null

\* An entity was destroyed and reclaimed; its id is not above the last issued
\* one and has not been issued again, other entities are in the sequence, and
\* getById does not find it.
C9_Witness ==
  /\ allocAtReset = 0
  /\ SequenceIntact(entities, deallocs)
  /\ Len(entities) = 2
  /\ \E o \in 1..nAlloc :
       /\ deallocs[o] = 1
       /\ heap[o].id < lastEntityId
       /\ getById(entities, heap, lastEntityId, heap[o].id) = Null

\* ------------------------------------------------------------------ C10
\* C10: while emit<T> runs, the receive calls made so far are those of the
\* first k subscribers of T in the order of their subscribe<T> calls (one call
\* per subscribe call, none for a subscriber of another type only); emit
\* returns when that is the whole list; and with no subscriber of T, emit calls
\* nothing and changes nothing.
C10_EmitOrder ==
  /\ [](\A j \in 1..Len(stack) : stack[j].op = "emit" =>
          received = SubSeq(SubscribedTo(stack[j].ty), 1, stack[j].k))
  /\ [][/\ EmitReturn => received = SubscribedTo(Top.ty)
        /\ \A ty \in UserEvents :
             (Emit(ty) /\ SubscribedTo(ty) = <<>>) =>
               /\ received' = <<>>
               /\ UNCHANGED <<entities, lastEntityId, heap, nAlloc, deallocs,
                              systems, subscribers, stack, emitted>>
       ]_vars

\* An emit has returned after it called subscriber 2 and then subscriber 1,
\* which had subscribed in that order.
C10_Witness ==
  /\ AtHost
  /\ received = <<2, 1>>

\* ------------------------------------------------------------------ C11
\* emit calls subscriber s's receive in this step, for an event of type ty
Delivers(ty, s) ==
  \/ Emit(ty) /\ HasSubs(ty) /\ SubList(ty)[1] = s
  \/ /\ NextSubscriber
     /\ Top.op = "emit"
     /\ Top.ty = ty
     /\ SubList(ty)[Top.k + 1] = s

\* C11: when unsubscribeAll(s) returns, s is in no type's subscriber list,
\* whether it was alone in a list or shared it with other subscribers; and
\* an emit<T> calls the receive of a subscriber only if a subscribe<T> call of
\* that subscriber has not been taken back by an unsubscribeAll since.
C11_UnsubscribeAllRemoves ==
  [][/\ \A s \in Subscriber :
          UnsubscribeAll(s) =>
            \A ty \in DOMAIN subscribers' : s \notin Range(subscribers'[ty])
     /\ \A ty \in UserEvents, s \in Subscriber :
          Delivers(ty, s) => s \in Range(SubscribedTo(ty))
    ]_vars

\* ------------------------------------------------------------------ C12
\* The registry after subscriber s is taken out of type ty's list: the other
\* types' lists and the other subscribers' entries as they were, and no entry
\* for ty if its list became empty.
Removed(reg, ty, s) ==
  IF ty \notin DOMAIN reg THEN reg
  ELSE IF Erase(reg[ty], s) = <<>>
       THEN [t \in DOMAIN reg \ {ty} |-> reg[t]]
       ELSE [reg EXCEPT ![ty] = Erase(@, s)]

\* C12: the host can call unsubscribe<T>(s) for a subscriber s of T's list,
\* and when the call returns the registry is the one before the call with the
\* entries of s taken out of T's list (so that emit<T>, which walks that
\* list, does not call s.receive), every other list and entry unchanged, and
\* T's entry dropped if its list became empty.
C12_Unsubscribe ==
  AtHost =>
    \A ty \in DOMAIN subscribers, s \in Subscriber :
      s \in Range(subscribers[ty]) =>
      /\ ENABLED Unsubscribe(ty, s)
      /\ ~ENABLED (/\ Unsubscribe(ty, s)
                   /\ subscribers' # Removed(subscribers, ty, s))

\* ------------------------------------------------------------------ C13
\* C13: every assign<T>(v) on an entity, whether or not the entity had a T,
\* emits OnComponentAssigned<T> once, after the component is stored: when the
\* first receive is entered (one delivery is in progress more than before the
\* call) the event names that entity, has<T>() is true on it, and the event's
\* handle is the entity's valid handle for T and reads v.  Without a
\* subscriber of the event nothing is delivered.  No other operation starts
\* a delivery of that event, and from one subscriber's receive to the next
\* emit passes the same event and changes nothing itself.
C13_AssignEmitsAfterStore ==
  [][/\ \A o \in Obj, T \in CompType, v \in Value :
          Assign(o, T, v) =>
            IF HasSubs(OnComponentAssigned(T))
            THEN /\ Len(stack') = Len(stack) + 1
                 /\ SubSeq(stack', 1, Len(stack)) = stack
                 /\ LET ev == stack'[Len(stack')]
                    IN /\ ev.op = "assign"
                       /\ ev.ty = OnComponentAssigned(T)
                       /\ ev.k = 1
                       /\ ev.ent = o
                       /\ has(components', o, T)
                       /\ isValid(ev.i)
                       /\ ev.i = get(components', o, T)
                       /\ containers'[ev.i].freed = 0
                       /\ containers'[ev.i].data = v
            ELSE stack' = stack
     /\ (Len(stack') > Len(stack) /\ stack'[Len(stack')].op = "assign") =>
          \E o \in Obj, T \in CompType, v \in Value : Assign(o, T, v)
     /\ (NextSubscriber /\ Top.op = "assign") =>
          /\ UNCHANGED <<components, containers, entities, heap>>
          /\ stack'[Len(stack')].ent = Top.ent
          /\ stack'[Len(stack')].i = Top.i
    ]_vars

\* A receive of OnComponentAssigned<T> assigned T again to the entity of its
\* event: the second event is being delivered, with the same handle, which
\* now reads the second value.
C13_Witness ==
  /\ Len(stack) = 2
  /\ stack[1].op = "assign"
  /\ stack[2].op = "assign"
  /\ stack[1].ent = stack[2].ent
  /\ stack[1].ty = stack[2].ty
  /\ stack[1].i = stack[2].i
  /\ containers[stack[2].i].data = 2
  /\ Len(containers) = 1

\* ------------------------------------------------------------------ C14
\* the map entries (entity, type) that point to container c
Owners(c) ==
  {e \in Obj \X CompType : has(components, e[1], e[2]) /\ components[e[1]][e[2]] = c}

\* C14: an entity holds at most one container per component type: every
\* container that is allocated and not deallocated is the one that exactly one
\* entity's map holds for the container's type, and every map entry points to
\* such a container.  After assign<T>(v), has<T>() is true and get<T>() is a
\* valid handle reading v; an assign to an entity that has T keeps its
\* container and allocates none; the entity's other components, and the other
\* entities' components, are what they were.
C14_OneContainerPerType ==
  /\ [](\A c \in DOMAIN containers :
          /\ containers[c].freed = 0 =>
               /\ Cardinality(Owners(c)) = 1
               /\ \A e \in Owners(c) : e[2] = containers[c].ty
          /\ containers[c].freed # 0 => Owners(c) = {})
  /\ [][\A o \in Obj, T \in CompType, v \in Value :
          Assign(o, T, v) =>
            /\ has(components', o, T)
            /\ isValid(get(components', o, T))
            /\ containers'[get(components', o, T)].data = v
            /\ has(components, o, T) =>
                 /\ get(components', o, T) = get(components, o, T)
                 /\ Len(containers') = Len(containers)
            /\ \A e \in Obj, U \in CompType :
                 (e # o \/ U # T) =>
                   /\ get(components', e, U) = get(components, e, U)
                   /\ isValid(get(components, e, U)) =>
                        containers'[get(components, e, U)] =
                          containers[get(components, e, U)]
    ]_vars

\* An entity has both component types, each in its own container, and they
\* read different values; the second value of the first was assigned over
\* the first one (only two containers were ever allocated).
C14_Witness ==
  /\ AtHost
  /\ Len(containers) = 2
  /\ has(components, 1, "X")
  /\ has(components, 1, "Y")
  /\ containers[get(components, 1, "X")].data = 2
  /\ containers[get(components, 1, "Y")].data = 1
  /\ get(components, 1, "X") = 1

\* ------------------------------------------------------------------ C15
\* C15: remove<T>() returns true exactly if the entity had T; afterwards
\* has<T>() is false and get<T>() is the invalid handle (so that a second
\* remove<T>() returns false); no event is delivered; the container the entity
\* held for T is deallocated, once, and no other container is touched; the
\* entity's other components and the other entities' components are what
\* they were.
C15_Remove ==
  /\ [](\A c \in DOMAIN containers : containers[c].freed <= 1)
  /\ [][\A o \in Obj, T \in CompType :
          Remove(o, T) =>
            /\ removed' = has(components, o, T)
            /\ ~has(components', o, T)
            /\ ~isValid(get(components', o, T))
            /\ stack' = stack
            /\ received' = received
            /\ \A c \in DOMAIN containers :
                 IF c = get(components, o, T)
                 THEN containers'[c].freed = containers[c].freed + 1
                 ELSE containers'[c] = containers[c]
            /\ Len(containers') = Len(containers)
            /\ \A e \in Obj, U \in CompType :
                 (e # o \/ U # T) => get(components', e, U) = get(components, e, U)
    ]_vars

\* With subscribers of both component events registered, the last remove
\* returned false: it was the second remove of a component that the first had
\* deallocated; the entity's other component is in place.
C15_Witness ==
  /\ AtHost
  /\ \A T \in CompType : OnComponentAssigned(T) \in DOMAIN subscribers
  /\ ~removed
  /\ Len(containers) = 2
  /\ containers[1].freed = 1
  /\ containers[1].ty = "X"
  /\ ~has(components, 1, "X")
  /\ has(components, 1, "Y")
  /\ containers[get(components, 1, "Y")].freed = 0

\* ------------------------------------------------------------------ C16
\* An entity the walk is asked for: it has every type of the list (none for
\* World::all) and is not pending destroy unless those were asked for.
Wanted(hp, comps, Types, incl, o) ==
  /\ \A T \in Types : T \in DOMAIN comps[o]
  /\ hp[o].bPendingDestroy => incl

\* Positions (from 0) after position p of the sequence that hold a wanted entity
WantedAfter(p, Types, incl) ==
  {j \in (p + 1)..(Len(entities) - 1) :
     Wanted(heap, components, Types, incl, entities[j + 1])}

\* What a step of a walk whose cursor was at p does: the callback is called
\* with the first wanted entity after p, or the walk returns if there is none.
WalkStep(p, seen) ==
  LET W == WantedAfter(p, view'.types, view'.incl)
  IN IF W = {}
     THEN /\ visited' = seen
          /\ stack' = <<>>
     ELSE LET j == CHOOSE m \in W : \A n \in W : m <= n
          IN /\ visited' = Append(seen, entities[j + 1])
             /\ Len(stack') = 1
             /\ stack'[1].op \in {"each", "all"}
             /\ stack'[1].i = j

\* A call of World::each or World::all by the host (its arguments are those
\* the step records)
EachCalled == Each(view'.types, view'.incl)

\* C16: world.each<T1..Tn>(callback, includePendingDestroy), and world.all
\* with no types, called on a world whose callbacks create and destroy no
\* entity, calls the callback with the wanted entities only, each once, in
\* sequence order, skipping none: every step of the walk calls it with the
\* first wanted entity after the last one visited, and returns when there is
\* none left (at once in an empty world).  When the callbacks also left the
\* components alone, the entities visited are exactly the wanted entities of
\* the sequence, in order.
C16_EachVisitsMatching ==
  [][ /\ EachCalled => WalkStep(-1, <<>>)
      /\ EachNext => WalkStep(stack[1].i, visited)
      /\ (EachCalled \/ (EachNext /\ components = eachStart)) /\ stack' = <<>>
           => LET Q(o) == Wanted(heap, components, view'.types, view'.incl, o)
              IN visited' = SelectSeq(entities, Q)
      /\ visited' # visited => EachCalled \/ EachNext
    ]_vars

\* each<X>() returned to the host after it visited the second and the third
\* entity of a sequence whose first entity has no X.
C16_Witness ==
  /\ AtHost
  /\ view = [types |-> {"X"}, incl |-> FALSE]
  /\ entities = <<1, 2, 3>>
  /\ ~has(components, 1, "X")
  /\ visited = <<2, 3>>

\* ------------------------------------------------------------------ C17
\* The systems of a sequence of registrations, each once, in the order of
\* their first registration
RECURSIVE Registered(_)
Registered(regs) ==
  IF regs = <<>> THEN <<>>
  ELSE LET init == Registered(SubSeq(regs, 1, Len(regs) - 1))
           s == regs[Len(regs)]
       IN IF s \in Range(init) THEN init ELSE Append(init, s)

\* C17: when destroyWorld ends, OnEntityDestroyed was emitted exactly once
\* for every entity of the sequence (by the teardown, or before it for an
\* entity that was already pending destroy), every entity of the sequence was
\* deallocated, once, and unconfigure was called exactly once on each
\* registered system, in registration order; no unconfigure call is made
\* while an OnEntityDestroyed event is still to be delivered.
C17_DestroyWorld ==
  [][ (DestroyWorld \/ DestroyWorldResume) =>
        /\ \A o \in Obj : emitted'[o] - emitted[o] =
             IF /\ o \in Range(entities)
                /\ ~isPendingDestroy(heap, o)
                /\ isPendingDestroy(heap', o)
             THEN 1 ELSE 0
        /\ world' # "alive" =>
             /\ world' = "destroyed"
             /\ \A o \in Range(entities) : emitted'[o] = 1 /\ deallocs'[o] = 1
             /\ torn' = Registered(systems)
        /\ torn' # torn => stack' = <<>> /\ world' # "alive"
    ]_vars

\* ------------------------------------------------------------------ C18
\* C18: destroy(e, true) called for an entity that an earlier immediate
\* destroy removed from the sequence and deallocated does nothing: it emits
\* no event, leaves the sequence and getCount() as they are, and neither
\* writes to nor deallocates the entity's storage again; the program goes on.
C18_DestroyTwice ==
  [][\A o \in Obj :
       DestroyDangling(o) =>
         /\ emitted' = emitted
         /\ stack' = stack
         /\ entities' = entities
         /\ getCount(entities') = getCount(entities)
         /\ heap' = heap
         /\ deallocs' = deallocs
         /\ world' = world
    ]_vars

\* ------------------------------------------------------------------ C19
\* C19: unconfigure is called on a system only while the system is
\* configured, that is, registered by a registerSystem call whose configure
\* no unconfigure has followed: a call unregisterSystem(s), which calls
\* unconfigure on s, runs only in a state where s is in the sequence and
\* configured, and the teardown unconfigures only such systems, none more
\* often than it was registered.
C19_SystemLifecycle ==
  /\ [](\A s \in System :
          (ENABLED UnregisterSystem(s)) => s \in Range(systems) /\ configured[s])
  /\ [][torn' # torn =>
          \A s \in Range(torn') :
            /\ s \in Range(systems)
            /\ configured[s]
            /\ Count(torn', s) <= Count(systems, s)
       ]_vars

\* ------------------------------------------------------------------ C20
\* C20: every create() appends the new entity, not pending destroy, as the
\* last element of the sequence, so that getCount() counts it and getById of
\* its id returns it, and then emits OnEntityCreated once, carrying that
\* entity: the first receive call is made in that state, no other operation
\* starts such an emit, and passing the event on to the next subscriber changes
\* neither the event nor the entities.
C20_CreateEmitsAfterAppend ==
  [][ /\ Create =>
           LET o == nAlloc'
           IN /\ o \notin Range(entities)
              /\ getCount(entities') = getCount(entities) + 1
              /\ getByIndex(entities', getCount(entities') - 1) = o
              /\ SubSeq(entities', 1, Len(entities)) = entities
              /\ getById(entities', heap', lastEntityId', heap'[o].id) = o
              /\ ~isPendingDestroy(heap', o)
              /\ IF HasSubs(OnEntityCreated)
                 THEN /\ Len(stack') = Len(stack) + 1
                      /\ SubSeq(stack', 1, Len(stack)) = stack
                      /\ stack'[Len(stack')].op = "create"
                      /\ stack'[Len(stack')].ent = o
                      /\ stack'[Len(stack')].k = 1
                 ELSE stack' = stack
      /\ ( /\ Len(stack') > Len(stack)
           /\ stack'[Len(stack')].op = "create" ) => Create
      /\ (NextSubscriber /\ Top.op = "create") =>
           /\ stack'[Len(stack')].ent = Top.ent
           /\ UNCHANGED <<entities, heap, lastEntityId>>
    ]_vars

\* The second subscriber of OnEntityCreated is receiving the event of the
\* second entity, which is the last of two in the sequence.
C20_Witness ==
  /\ Len(stack) = 1
  /\ Top.op = "create"
  /\ Top.k = 2
  /\ Top.ent = 2
  /\ getCount(entities) = 2
  /\ getByIndex(entities, 1) = 2
  /\ getById(entities, heap, lastEntityId, heap[2].id) = 2
  /\ ~isPendingDestroy(heap, 2)

SameFamily(a, b) == a.types = b.types

C22_CursorEquality ==
  \A i, j \in DOMAIN cursors :
    LET a == cursors[i]
        b == cursors[j]
    IN SameFamily(a, b) =>
         /\ itEqual(entities, a, b) <=>
              \/ itIsEnd(entities, a) /\ itIsEnd(entities, b)
              \/ a.index = b.index
         /\ itEqual(entities, a, b) <=> itEqual(entities, b, a)
         /\ itNotEqual(entities, a, b) <=> ~itEqual(entities, a, b)

\* A cursor whose end flag was set at a count that entities created since
\* have exceeded: isEnd() still answers true at a position that is now valid.
Stale(ents, it) == it.bIsEnd /\ it.index < getCount(ents)

\* C22 (amended): while no cursor is stale, a == b holds exactly when both are
\* at the end or both have the same position, and a == b agrees with b == a;
\* a cursor becomes stale only in a step that adds an entity to the sequence,
\* never by a removal, an increment or its construction; and a != b is the
\* negation of a == b in every state.
C22_CursorEqualityUnlessStale ==
  /\ [](\A i, j \in DOMAIN cursors :
          LET a == cursors[i]
              b == cursors[j]
          IN SameFamily(a, b) =>
               /\ ~Stale(entities, a) /\ ~Stale(entities, b) =>
                    /\ itEqual(entities, a, b) <=>
                         \/ itIsEnd(entities, a) /\ itIsEnd(entities, b)
                         \/ a.index = b.index
                    /\ itEqual(entities, a, b) <=> itEqual(entities, b, a)
               /\ itNotEqual(entities, a, b) <=> ~itEqual(entities, a, b))
  /\ [][\A k \in DOMAIN cursors' :
          Stale(entities', cursors'[k]) =>
            \/ k \in DOMAIN cursors /\ Stale(entities, cursors[k])
            \/ getCount(entities') > getCount(entities)
       ]_vars

\* After two entities were removed, a cursor that was on the second one is at
\* the end by the count alone and equals, both ways, the end() of a new view,
\* whose position differs.
C22_Witness ==
  /\ Len(cursors) = 2
  /\ ~cursors[1].bIsEnd
  /\ cursors[2].bIsEnd
  /\ cursors[1].index # cursors[2].index
  /\ ~Stale(entities, cursors[2])
  /\ itEqual(entities, cursors[1], cursors[2])
  /\ itEqual(entities, cursors[2], cursors[1])

\* ------------------------------------------------------------------ C23
\* A call of World::each or World::all by the host, with the cursors of
\* its range-for (its arguments are those the step records)
WalkCalled == Walk(view'.types, view'.incl)

\* What a step of such a walk whose cursor was at position p does: viewFunc
\* is called with the first entity after p that is wanted when the step is
\* taken, or the walk returns if there is none.
WalkedTo(p, seen) ==
  LET W == WantedAfter(p, view'.types, view'.incl)
  IN IF W = {}
     THEN /\ visited' = seen
          /\ stack' = <<>>
     ELSE LET j == CHOOSE m \in W : \A n \in W : m <= n
          IN /\ visited' = Append(seen, entities[j + 1])
             /\ InWalk'
             /\ cursors'[1].index = j

\* C23: when the callback of world.all or world.each destroys entities with
\* immediate = false (the visited one or others) and creates none, the
\* sequence stays as it was; every step of the traversal calls the callback
\* with the first entity after the cursor that has the types and, without
\* includePendingDestroy, is not pending destroy at that moment, so an entity
\* that qualified at the start and was not destroyed before the cursor
\* reached it is not skipped and one destroyed before is not visited; no
\* entity is visited twice; an entity still qualifying when the traversal
\* returns was visited; and the traversal returns.
C23_DeferredDestroySafe ==
  /\ [][ /\ WalkCalled => WalkedTo(-1, <<>>)
         /\ WalkNext => WalkedTo(cursors[1].index, visited)
         /\ visited' # visited => WalkCalled \/ WalkNext
         /\ (\E o \in Obj : CallbackDestroy(o)) =>
              /\ entities' = entities
              /\ cursors' = cursors
         /\ InWalk /\ ~InWalk' =>
              \A o \in Range(entities) :
                Wanted(heap, components, view.types, view.incl, o) =>
                  o \in Range(visited')
     ]_vars
  /\ [](\A p, q \in DOMAIN visited : p # q => visited[p] # visited[q])
  /\ (InWalk ~> ~InWalk)

\* all() returned to the host after its callback, called with the first of
\* three entities, destroyed that entity and the second one: the second was
\* not visited, the third was.
C23_Witness ==
  /\ stack = <<>>
  /\ entities = <<1, 2, 3>>
  /\ view = [types |-> {}, incl |-> FALSE]
  /\ visited = <<1, 3>>
  /\ isPendingDestroy(heap, 1)
  /\ isPendingDestroy(heap, 2)
  /\ ~isPendingDestroy(heap, 3)

\* ------------------------------------------------------------------ C24
\* The count when the walk in progress began: the position of its end()
StartCount == cursors[2].index

\* C24: a traversal by world.all or world.each that began when the world
\* held N entities calls the callback only with entities at positions below
\* N, whatever the callback created in between.
C24_VisitsBelowStartCount ==
  [][visited' # visited /\ InWalk' => cursors'[1].index < cursors'[2].index]_vars

\* C24 (amended): the traversal never calls the callback with the entity at
\* position N.  Each step goes to the first entity after the cursor that is
\* wanted at that moment, entities created by the callback included: it
\* returns when there is none or when that entity is at position N, and
\* calls the callback with it otherwise, also at a position above N, which
\* the cursor reaches when the entity at position N is filtered out.
C24_VisitsAllButStartCount ==
  [][ /\ WalkCalled => WalkedTo(-1, <<>>)
      /\ WalkNext =>
           LET W == WantedAfter(cursors[1].index, view.types, view.incl)
           IN IF \/ W = {}
                 \/ StartCount = CHOOSE m \in W : \A n \in W : m <= n
              THEN visited' = visited /\ stack' = <<>>
              ELSE WalkedTo(cursors[1].index, visited)
      /\ visited' # visited => WalkCalled \/ WalkNext
      /\ visited' # visited /\ InWalk' => cursors'[1].index # cursors'[2].index
    ]_vars

\* all() began with one entity; its callback created two entities and
\* destroyed the first of them, and was then called with the other.
C24_Witness ==
  /\ InWalk
  /\ view = [types |-> {}, incl |-> FALSE]
  /\ cursors[2].index = 1
  /\ cursors[1].index = 2
  /\ entities = <<1, 2, 3>>
  /\ visited = <<1, 3>>

\* ------------------------------------------------------------------ C25
\* A receive callback of a subscriber is running, called by the emit of the
\* innermost operation
Receiving ==
  /\ stack # <<>>
  /\ Top.op \in {"create", "assign", "destroy", "reset", "destroyWorld"}

\* C25: whenever a subscriber's receive callback runs, every entity of the
\* World's sequence is allocated; and while reset() or destroyWorld() delivers
\* OnEntityDestroyed for an entity, that entity is allocated and none of the
\* component containers it holds is deallocated.
C25_ListedEntitiesAllocated ==
  Receiving =>
    /\ \A o \in Range(entities) : ValidEntity(o)
    /\ Top.op \in {"reset", "destroyWorld"} =>
         /\ ValidEntity(Top.ent)
         /\ \A c \in Held(components, Top.ent) : containers[c].freed = 0

====
